---- MODULE Spec2Model ----
(***************************************************************************)
(* Model of the gossip chat client of src/src/main.rs: session startup     *)
(* (main), the Receive Loop (subscribe_loop), the Input Pump (input_loop)  *)
(* and the Broadcast Loop (the while-let loop of main).                    *)
(*                                                                         *)
(* Text is modelled as a sequence of chunks (short strings); a NodeId is a *)
(* sequence of IdLen hex bytes.                                            *)
(***************************************************************************)
EXTENDS Integers, Sequences, FiniteSets, TLC

(* ------------------------------ bounds --------------------------------- *)

\* Longest raw input line (before the newline) the user types.
MaxLineLen == 2
\* Calls of read_line the pump makes in the broadcast-side specification.
MaxLines == 2
\* Transport events the Receive Loop takes in the receive-side specification.
MaxEvents == 3
\* The same two limits in the whole-program specification.
StartLines == 1
StartEvents == 1
\* Bootstrap peers listed in a ticket.
MaxNodes == 2
\* Bytes of a NodeId, and bytes of it that fmt_short renders.
IdLen == 2
ShortLen == 1

(* --------------------------- program constants ------------------------- *)

\* tokio::sync::mpsc::channel(1)
Capacity == 1

(* ------------------------------ data ----------------------------------- *)

HexBytes == {"0a", "0b"}
NodeIds == [1..IdLen -> HexBytes]
SelfId == [i \in 1..IdLen |-> "0b"]
PeerA == [i \in 1..IdLen |-> "0a"]
PeerB == [i \in 1..IdLen |-> IF i = IdLen THEN "0b" ELSE "0a"]
Peers == {PeerA, PeerB}

\* NodeAddr: the peer identity plus the transport's address hints.
NodeAddrOf(id) == [node_id |-> id, relay |-> "relay"]
NodeAddrs == {NodeAddrOf(id) : id \in Peers}
SelfAddr == NodeAddrOf(SelfId)

Topics == {"T1", "T2"}
NoTopic == "none"

NoName == <<"--">>
Names == {<<"Alice">>, <<"Bob">>}

SeqsUpTo(S, n) == UNION {[1..k -> S] : k \in 0..n}

\* NodeId::fmt_short: the first bytes of the identity, in hex.
FmtShort(id) == SubSeq(id, 1, ShortLen)

(* --------------------------- text helpers ------------------------------ *)

IsSpace(c) == c \in {" ", "\n"}

RECURSIVE TrimStart(_)
TrimStart(s) ==
    IF s # <<>> /\ IsSpace(Head(s)) THEN TrimStart(Tail(s)) ELSE s

RECURSIVE TrimEnd(_)
TrimEnd(s) ==
    IF s # <<>> /\ IsSpace(s[Len(s)]) THEN TrimEnd(SubSeq(s, 1, Len(s) - 1)) ELSE s

\* str::trim
Trim(s) == TrimEnd(TrimStart(s))

\* What read_line leaves in the buffer for a typed line: the line and its newline.
LineChars == {" ", "a"}
RawLines == {l \o <<"\n">> : l \in SeqsUpTo(LineChars, MaxLineLen)}

\* get_item_state: the body of the HTTP answer, or an error.
FetchOutcomes == {[ok |-> TRUE, body |-> <<"ON">>], [ok |-> FALSE, body |-> <<>>]}
\* .unwrap_or_else(|_| "Error fetching state".to_string())
StateOrPlaceholder(r) == IF r.ok THEN r.body ELSE <<"Error fetching state">>

StateSep == <<" - OpenHAB state: ">>
\* format!("{} - OpenHAB state: {}", text, openhab_state)
WithState(text, st) == text \o StateSep \o st

(* --------------------------- Message codec ----------------------------- *)

AboutMe(from, name) == [tag |-> "AboutMe", from |-> from, body |-> name]
ChatMsg(from, text) == [tag |-> "Message", from |-> from, body |-> text]

BodyKey(tag) == IF tag = "AboutMe" THEN "name" ELSE "text"

\* Mutant of ToVec: the variant is not written, every payload is tagged
\* as a chat message.
ToVecUntagged(m) ==
    <<"{", "Message", "from">> \o m.from \o <<BodyKey(m.tag)>> \o m.body \o <<"}">>

\* Message::to_vec: serde_json's externally tagged form
\* {"<variant>":{"from":"<id>","<name|text>":"<string>"}}
ToVec(m) ==
    <<"{", m.tag, "from">> \o m.from \o <<BodyKey(m.tag)>> \o m.body \o <<"}">>

DecodeError == [tag |-> "DecodeError"]

\* Message::from_bytes: the variant must be known, the fields present and
\* the sender a NodeId; anything else is an error.
FromBytes(b) ==
    IF /\ Len(b) >= IdLen + 5
       /\ b[1] = "{"
       /\ b[2] \in {"AboutMe", "Message"}
       /\ b[3] = "from"
       /\ SubSeq(b, 4, IdLen + 3) \in NodeIds
       /\ b[IdLen + 4] = BodyKey(b[2])
       /\ b[Len(b)] = "}"
    THEN [tag |-> b[2], from |-> SubSeq(b, 4, IdLen + 3),
          body |-> SubSeq(b, IdLen + 5, Len(b) - 1)]
    ELSE DecodeError

(* ---------------------------- Ticket codec ----------------------------- *)

\* serde_json::to_string(&ticket): {"topic":"<t>","nodes":[<addr>,...]}
\* Each address is rendered as its identity followed by its hints.
RECURSIVE AddrsToString(_)
AddrsToString(ns) ==
    IF ns = <<>> THEN <<>>
    ELSE <<"addr">> \o Head(ns).node_id \o <<Head(ns).relay>> \o AddrsToString(Tail(ns))

TicketToString(t) ==
    <<"{", "topic", t.topic, "nodes", "[">> \o AddrsToString(t.nodes) \o <<"]", "}">>

TicketError == [ok |-> FALSE]

AddrWidth == IdLen + 2

\* Mutant of AddrsFromString: the addresses come back in reverse order.
RECURSIVE AddrsFromStringReversed(_)
AddrsFromStringReversed(s) ==
    IF s = <<>> THEN [ok |-> TRUE, nodes |-> <<>>]
    ELSE IF /\ Len(s) >= AddrWidth
            /\ s[1] = "addr"
            /\ SubSeq(s, 2, IdLen + 1) \in NodeIds
            /\ s[AddrWidth] = "relay"
         THEN LET rest == AddrsFromStringReversed(SubSeq(s, AddrWidth + 1, Len(s)))
              IN  IF rest.ok
                  THEN [ok |-> TRUE,
                        nodes |-> rest.nodes \o <<[node_id |-> SubSeq(s, 2, IdLen + 1),
                                                    relay |-> s[AddrWidth]]>>]
                  ELSE TicketError
         ELSE TicketError

\* The address list between the brackets: every entry complete, or nothing.
RECURSIVE AddrsFromString(_)
AddrsFromString(s) ==
    IF s = <<>> THEN [ok |-> TRUE, nodes |-> <<>>]
    ELSE IF /\ Len(s) >= AddrWidth
            /\ s[1] = "addr"
            /\ SubSeq(s, 2, IdLen + 1) \in NodeIds
            /\ s[AddrWidth] = "relay"
         THEN LET rest == AddrsFromString(SubSeq(s, AddrWidth + 1, Len(s)))
              IN  IF rest.ok
                  THEN [ok |-> TRUE,
                        nodes |-> <<[node_id |-> SubSeq(s, 2, IdLen + 1),
                                     relay |-> s[AddrWidth]]>> \o rest.nodes]
                  ELSE TicketError
         ELSE TicketError

\* Mutant of TicketFromStr: a decoder that keeps what it could read of a
\* damaged text.
TicketFromStrPartial(s) ==
    IF Len(s) >= 3 /\ s[1] = "{" /\ s[2] = "topic" /\ s[3] \in Topics
    THEN [ok |-> TRUE, topic |-> s[3], nodes |-> <<>>]
    ELSE TicketError

\* Ticket::from_str
TicketFromStr(s) ==
    IF /\ Len(s) >= 7
       /\ s[1] = "{" /\ s[2] = "topic" /\ s[3] \in Topics
       /\ s[4] = "nodes" /\ s[5] = "["
       /\ s[Len(s) - 1] = "]" /\ s[Len(s)] = "}"
    THEN LET ns == AddrsFromString(SubSeq(s, 6, Len(s) - 2))
         IN  IF ns.ok THEN [ok |-> TRUE, topic |-> s[3], nodes |-> ns.nodes]
             ELSE TicketError
    ELSE TicketError

(* ------------------------------ inputs --------------------------------- *)

\* --name: absent, or a nickname.
ArgNames == {NoName, <<"Bob">>}

ValidTickets == [topic : Topics, nodes : SeqsUpTo(NodeAddrs, MaxNodes)]

\* Ticket::fmt (Display): the human-readable rendering, for display only.
TicketDisplay(t) == <<"Node ID: ">> \o t.nodes[1].node_id

\* Ticket strings the decoder must refuse: free text, a truncated
\* encoding, and the display rendering fed back.
BadTicketTexts ==
    {<<"not a valid ticket">>}
    \cup {SubSeq(TicketToString(t), 1, Len(TicketToString(t)) - 1) : t \in ValidTickets}
    \cup {TicketDisplay(t) : t \in {u \in ValidTickets : u.nodes # <<>>}}

TicketTexts == {TicketToString(t) : t \in ValidTickets} \cup BadTicketTexts

ArgsSet ==
    [name : ArgNames, command : {"Open"}, ticket : {<<>>}]
    \cup [name : ArgNames, command : {"Join"}, ticket : TicketTexts]

(* ------------------------------ state ---------------------------------- *)

VARIABLES
    args,           \* the parsed command line
    mainPc,         \* position of main
    mainResult,     \* what main returned: "none", "ok" or "err"
    exited,         \* the process has ended
    topic,          \* main's topic
    nodes,          \* main's nodes (the iterator of the registration loop)
    node_ids,       \* main's node_ids
    text,           \* the Broadcast Loop's current line
    openhab_state,  \* the Broadcast Loop's openhab_state
    mainOut,        \* lines main has printed
    bound,          \* the endpoint is bound
    addrBook,       \* addresses registered with endpoint.add_node_addr
    subscription,   \* arguments of the subscribe_and_join request, if made
    joinState,      \* "none", "joined" or "failed"
    sent,           \* payloads submitted to sender.broadcast, with the outcome
    routerDown,     \* router.shutdown has been invoked
    chan,           \* the mpsc channel's buffer
    txAlive,        \* line_tx exists
    rxAlive,        \* line_rx exists
    pumpPc,         \* position of input_loop
    pumpText,       \* input_loop's text
    stdinEof,       \* the input source is exhausted
    handedOff,      \* history: lines blocking_send accepted
    received,       \* history: lines line_rx.recv returned
    rxPc,           \* position of subscribe_loop
    rxCur,          \* the Message subscribe_loop is handling
    rxResult,       \* what subscribe_loop returned: "none", "ok" or "err"
    names,          \* subscribe_loop's names
    out,            \* lines subscribe_loop has printed
    consumed,       \* history: what receiver.try_next returned
    codec           \* a value passing through a codec: to_vec/from_bytes or
                    \* to_string/from_str

mainVars == <<mainPc, mainResult, topic, nodes, node_ids, text, openhab_state, mainOut>>
netVars == <<bound, addrBook, subscription, joinState, sent, routerDown>>
chanVars == <<chan, txAlive, rxAlive>>
pumpVars == <<pumpPc, pumpText, stdinEof, handedOff>>
rxVars == <<rxPc, rxCur, rxResult, names, out, consumed>>
vars == <<args, exited, mainVars, netVars, chanVars, pumpVars, received, rxVars, codec>>

\* The command lines of the specifications that run the loops: a room
\* opened, or joined with a ticket that lists one peer.
SessionArgs ==
    {a \in ArgsSet :
        \/ a.command = "Open"
        \/ a.ticket = TicketToString([topic |-> "T1", nodes |-> <<NodeAddrOf(PeerA)>>])}

NoSubscription == [topic |-> NoTopic, peers |-> <<>>]
NoMessage == [tag |-> "none"]

\* No value is passing through a codec.
CodecIdle == [pc |-> "idle"]

\* The state when main starts, for a command line of the set A.
Start(A) ==
    /\ args \in A
    /\ mainPc = "parse" /\ mainResult = "none" /\ exited = FALSE
    /\ topic = NoTopic /\ nodes = <<>> /\ node_ids = <<>>
    /\ text = <<>> /\ openhab_state = <<>> /\ mainOut = <<>>
    /\ bound = FALSE /\ addrBook = <<>> /\ subscription = NoSubscription
    /\ joinState = "none" /\ sent = <<>> /\ routerDown = FALSE
    /\ chan = <<>> /\ txAlive = FALSE /\ rxAlive = FALSE
    /\ pumpPc = "unspawned" /\ pumpText = <<>> /\ stdinEof = FALSE
    /\ handedOff = <<>> /\ received = <<>>
    /\ rxPc = "unspawned" /\ rxCur = NoMessage /\ rxResult = "none"
    /\ names = <<>> /\ out = <<>> /\ consumed = <<>>

Init == Start(ArgsSet) /\ codec = CodecIdle
InitSession == Start(SessionArgs) /\ codec = CodecIdle

(* ------------------------------ main: startup -------------------------- *)

Println(line) == mainOut' = Append(mainOut, line)

\* A `?` in main that takes the error branch: main returns the error and
\* its locals, line_rx among them, are dropped.
MainFails ==
    /\ mainPc' = "returned"
    /\ mainResult' = "err"
    /\ rxAlive' = FALSE

\* main, lines 76-87: select the topic and the bootstrap peers.
ParseCommand ==
    /\ ~exited /\ mainPc = "parse"
    /\ \/ /\ args.command = "Open"
          /\ \E t \in Topics :
                /\ topic' = t
                /\ Println(<<"> opening chat room for topic ", t>>)
          /\ nodes' = <<>>
          /\ mainPc' = "bind"
          /\ UNCHANGED <<mainResult, rxAlive>>
       \/ /\ args.command = "Join"
          /\ LET t == TicketFromStr(args.ticket)
             IN  IF t.ok
                 THEN /\ topic' = t.topic
                      /\ nodes' = t.nodes
                      /\ Println(<<"> joining chat room for topic ", t.topic>>)
                      /\ mainPc' = "bind"
                      /\ UNCHANGED <<mainResult, rxAlive>>
                 ELSE /\ MainFails
                      /\ UNCHANGED <<topic, nodes, mainOut>>
    /\ UNCHANGED <<codec, args, exited, node_ids, text, openhab_state, netVars, chan, txAlive,
                   pumpVars, received, rxVars>>

\* main, lines 89-107: discovery, endpoint, gossip and router; each may fail.
Bind ==
    /\ ~exited /\ mainPc = "bind"
    /\ \E ok \in BOOLEAN :
          IF ok
          THEN /\ bound' = TRUE
               /\ Println(<<"> our node id: ">> \o SelfId)
               /\ mainPc' = "ticket"
               /\ UNCHANGED <<mainResult, rxAlive>>
          ELSE /\ MainFails
               /\ UNCHANGED <<bound, mainOut>>
    /\ UNCHANGED <<codec, args, exited, topic, nodes, node_ids, text, openhab_state,
                   addrBook, subscription, joinState, sent, routerDown, chan, txAlive,
                   pumpVars, received, rxVars>>

\* Mutant of SelfTicket: the ticket passes on the peers main was given.
SelfTicketWithPeers == [topic |-> topic, nodes |-> nodes]

\* The ticket main builds at lines 109-113.
SelfTicket == [topic |-> topic, nodes |-> <<SelfAddr>>]

\* main, lines 109-115: build the self ticket and print its encoding.
PrintTicket ==
    /\ ~exited /\ mainPc = "ticket"
    /\ \E ok \in BOOLEAN :
          IF ok
          THEN /\ Println(<<"> ticket to join us: ">> \o TicketToString(SelfTicket))
               /\ mainPc' = "nodes"
               /\ UNCHANGED <<mainResult, rxAlive>>
          ELSE /\ MainFails
               /\ UNCHANGED mainOut
    /\ UNCHANGED <<codec, args, exited, topic, nodes, node_ids, text, openhab_state, netVars,
                   chan, txAlive, pumpVars, received, rxVars>>

\* main, lines 117-121: collect the peers' identities and announce.
CollectNodeIds ==
    /\ ~exited /\ mainPc = "nodes"
    /\ node_ids' = [i \in 1..Len(nodes) |-> nodes[i].node_id]
    /\ IF nodes = <<>>
       THEN /\ Println(<<"> waiting for nodes to join us...">>)
            /\ mainPc' = "subscribe"
       ELSE /\ Println(<<"> trying to connect to ", ToString(Len(nodes)), " nodes...">>)
            /\ mainPc' = "register"
    /\ UNCHANGED <<codec, args, exited, mainResult, topic, nodes, text, openhab_state, netVars,
                   chanVars, pumpVars, received, rxVars>>

\* Mutant of LoopEnds: the loop stops after the first peer.
LoopEndsEarly(rest) == TRUE

\* main, line 122: the for loop ends when the iterator is exhausted.
LoopEnds(rest) == rest = <<>>

\* main, lines 122-124: one turn of the registration loop.
RegisterNode ==
    /\ ~exited /\ mainPc = "register"
    /\ \E ok \in BOOLEAN :
          IF ok
          THEN /\ addrBook' = Append(addrBook, Head(nodes))
               /\ nodes' = Tail(nodes)
               /\ mainPc' = IF LoopEnds(Tail(nodes)) THEN "subscribe" ELSE "register"
               /\ UNCHANGED <<mainResult, rxAlive>>
          ELSE /\ MainFails
               /\ UNCHANGED <<addrBook, nodes>>
    /\ UNCHANGED <<codec, args, exited, topic, node_ids, text, openhab_state, mainOut,
                   bound, subscription, joinState, sent, routerDown, chan, txAlive,
                   pumpVars, received, rxVars>>

\* main, lines 127-128: request the subscription and wait for the join.
Subscribe ==
    /\ ~exited /\ mainPc = "subscribe"
    /\ subscription' = [topic |-> topic, peers |-> node_ids]
    /\ \E ok \in BOOLEAN :
          IF ok
          THEN /\ joinState' = "joined"
               /\ Println(<<"> connected!">>)
               /\ mainPc' = "about"
               /\ UNCHANGED <<mainResult, rxAlive>>
          ELSE /\ joinState' = "failed"
               /\ MainFails
               /\ UNCHANGED mainOut
    /\ UNCHANGED <<codec, args, exited, topic, nodes, node_ids, text, openhab_state,
                   bound, addrBook, sent, routerDown, chan, txAlive,
                   pumpVars, received, rxVars>>

\* Mutant of BroadcastFatal: the result of the broadcast is ignored.
BroadcastFailureIgnored(ok) == FALSE

\* main, lines 135 and 153: the `?` after sender.broadcast(..).await returns
\* from main when the transport reported an error.
BroadcastFatal(ok) == ~ok

\* sender.broadcast(payload): the submission and its outcome.
Broadcast(payload, ok) == sent' = Append(sent, [payload |-> payload, ok |-> ok])

\* Mutant of HasName: the announce is made whether or not a name was given.
HasNameAlways(a) == TRUE

\* main, line 130: if let Some(name) = args.name.clone()
HasName(a) == a.name # NoName

\* main, lines 130-136: the startup announce.
AnnounceName ==
    /\ ~exited /\ mainPc = "about"
    /\ IF HasName(args)
       THEN \E ok \in BOOLEAN :
               /\ Broadcast(ToVec(AboutMe(SelfId, args.name)), ok)
               /\ IF BroadcastFatal(ok)
                  THEN MainFails
                  ELSE mainPc' = "spawn_rx" /\ UNCHANGED <<mainResult, rxAlive>>
       ELSE /\ mainPc' = "spawn_rx"
            /\ UNCHANGED <<sent, mainResult, rxAlive>>
    /\ UNCHANGED <<codec, args, exited, topic, nodes, node_ids, text, openhab_state, mainOut,
                   bound, addrBook, subscription, joinState, routerDown, chan, txAlive,
                   pumpVars, received, rxVars>>

\* main, line 138: tokio::spawn(subscribe_loop(receiver)).
SpawnSubscribeLoop ==
    /\ ~exited /\ mainPc = "spawn_rx"
    /\ rxPc' = "listening"
    /\ mainPc' = "spawn_input"
    /\ UNCHANGED <<codec, args, exited, mainResult, topic, nodes, node_ids, text, openhab_state,
                   mainOut, netVars, chanVars, pumpVars, received,
                   rxCur, rxResult, names, out, consumed>>

\* main, lines 140-143: the channel and the input thread.
SpawnInputLoop ==
    /\ ~exited /\ mainPc = "spawn_input"
    /\ chan' = <<>> /\ txAlive' = TRUE /\ rxAlive' = TRUE
    /\ pumpPc' = "read"
    /\ Println(<<"> type a message and hit enter to broadcast...">>)
    /\ mainPc' = "recv"
    /\ UNCHANGED <<codec, args, exited, mainResult, topic, nodes, node_ids, text, openhab_state,
                   netVars, pumpText, stdinEof, handedOff, received, rxVars>>

\* The process ends when main has returned; every other thread and task
\* ends with it.
ProcessExit ==
    /\ ~exited /\ mainPc = "returned"
    /\ exited' = TRUE
    /\ UNCHANGED <<codec, args, mainVars, netVars, chanVars, pumpVars, received, rxVars>>

(* ------------------------------ Input Pump ----------------------------- *)

\* Mutant of HasRoom: the bound is off by one.
HasRoomOffByOne(c) == Len(c) <= Capacity

\* The channel of line 140 accepts a value while fewer than Capacity wait.
HasRoom(c) == Len(c) < Capacity

\* Mutant of TxAfterLoop: a clone of the sender outlives input_loop.
TxLeaked == TRUE

\* input_loop, line 210: tx is dropped when the function returns, which
\* closes the channel.
TxAfterLoop == FALSE

\* input_loop, lines 203-204: read one line and trim it.  At end of input
\* read_line returns Ok(0) and leaves the buffer empty; on a read error the
\* loop ends and tx is dropped.  `limit` bounds the reads.
ReadLine(limit) ==
    /\ ~exited /\ pumpPc = "read" /\ Len(handedOff) < limit
    /\ \/ /\ ~stdinEof
          /\ \E raw \in RawLines : pumpText' = Trim(raw)
          /\ pumpPc' = "send"
          /\ UNCHANGED <<stdinEof, txAlive>>
       \/ /\ stdinEof' = TRUE
          /\ pumpText' = Trim(<<>>)
          /\ pumpPc' = "send"
          /\ UNCHANGED txAlive
       \/ /\ ~stdinEof
          /\ pumpPc' = "done"
          /\ txAlive' = TxAfterLoop
          /\ UNCHANGED <<pumpText, stdinEof>>
    /\ UNCHANGED <<codec, args, exited, mainVars, netVars, chan, rxAlive, handedOff, received,
                   rxVars>>

\* input_loop, lines 205-208: tx.blocking_send(text) waits for room; it
\* fails once the receiver is gone, and the loop breaks.
BlockingSend ==
    /\ ~exited /\ pumpPc = "send"
    /\ IF rxAlive
       THEN /\ HasRoom(chan)
            /\ chan' = Append(chan, pumpText)
            /\ handedOff' = Append(handedOff, pumpText)
            /\ pumpPc' = "read"
            /\ UNCHANGED txAlive
       ELSE /\ pumpPc' = "done"
            /\ txAlive' = TxAfterLoop
            /\ UNCHANGED <<chan, handedOff>>
    /\ UNCHANGED <<codec, args, exited, mainVars, netVars, rxAlive, pumpText, stdinEof,
                   received, rxVars>>

(* ----------------------------- Broadcast Loop -------------------------- *)

\* Mutant of AfterRecv: the value taken stays in the channel.
AfterRecvKeeps(c) == c

\* What is left in the channel after recv took its first value.
AfterRecv(c) == Tail(c)

\* Mutant of RecvNone: recv gives up as soon as the sender is gone, with a
\* line still waiting.
RecvNoneEarly(c, tx) == ~tx

\* line_rx.recv() returns None when no line waits and no sender is left.
RecvNone(c, tx) == c = <<>> /\ ~tx

\* main, line 144: line_rx.recv().await yields the oldest waiting line, or
\* None once the channel is empty and tx is dropped.
RecvLine ==
    /\ ~exited /\ mainPc = "recv"
    /\ \/ /\ chan # <<>>
          /\ text' = Head(chan)
          /\ chan' = AfterRecv(chan)
          /\ received' = Append(received, Head(chan))
          /\ mainPc' = "fetch"
       \/ /\ RecvNone(chan, txAlive)
          /\ mainPc' = "shutdown"
          /\ UNCHANGED <<text, chan, received>>
    /\ UNCHANGED <<codec, args, exited, mainResult, topic, nodes, node_ids, openhab_state,
                   mainOut, netVars, txAlive, rxAlive, pumpVars, rxVars>>

\* Mutant of FetchFatal: the fetch is followed by `?` instead of
\* unwrap_or_else.
FetchFatalOnError(r) == ~r.ok

\* Lines 146 and 188: unwrap_or_else turns a failed fetch into the
\* placeholder, so no outcome of the fetch ends the caller.
FetchFatal(r) == FALSE

\* main, line 146: get_item_state().await.unwrap_or_else(..).
FetchState ==
    /\ ~exited /\ mainPc = "fetch"
    /\ \E r \in FetchOutcomes :
          IF FetchFatal(r)
          THEN /\ MainFails
               /\ UNCHANGED openhab_state
          ELSE /\ openhab_state' = StateOrPlaceholder(r)
               /\ mainPc' = "broadcast"
               /\ UNCHANGED <<mainResult, rxAlive>>
    /\ UNCHANGED <<codec, args, exited, topic, nodes, node_ids, text, mainOut,
                   netVars, chan, txAlive, pumpVars, received, rxVars>>

\* Mutant of ChatFor: the two arguments of format! are swapped.
ChatForSwapped(line, st) == ChatMsg(SelfId, WithState(st, line))

\* main, lines 149-152: the message built for a pumped line.
ChatFor(line, st) == ChatMsg(SelfId, WithState(line, st))

\* main, lines 153-154: submit the message; echo on success, fail otherwise.
BroadcastLine ==
    /\ ~exited /\ mainPc = "broadcast"
    /\ \E ok \in BOOLEAN :
          /\ Broadcast(ToVec(ChatFor(text, openhab_state)), ok)
          /\ IF BroadcastFatal(ok)
             THEN /\ MainFails
                  /\ UNCHANGED mainOut
             ELSE /\ Println(<<"> sent: ">> \o WithState(text, openhab_state))
                  /\ mainPc' = "recv"
                  /\ UNCHANGED <<mainResult, rxAlive>>
    /\ UNCHANGED <<codec, args, exited, topic, nodes, node_ids, text, openhab_state,
                   bound, addrBook, subscription, joinState, routerDown, chan, txAlive,
                   pumpVars, received, rxVars>>

\* main, lines 157-158: router.shutdown().await?; Ok(()).
RouterShutdown ==
    /\ ~exited /\ mainPc = "shutdown"
    /\ routerDown' = TRUE
    /\ \E ok \in BOOLEAN :
          IF ok
          THEN mainPc' = "returned" /\ mainResult' = "ok" /\ rxAlive' = FALSE
          ELSE MainFails
    /\ UNCHANGED <<codec, args, exited, topic, nodes, node_ids, text, openhab_state, mainOut,
                   bound, addrBook, subscription, joinState, sent, chan, txAlive,
                   pumpVars, received, rxVars>>

(* ------------------------------ Receive Loop --------------------------- *)

InTexts == {<<"hi">>}

WellFormedPayloads ==
    {ToVec(AboutMe(p, n)) : p \in Peers, n \in Names}
    \cup {ToVec(ChatMsg(p, t)) : p \in Peers, t \in InTexts}

\* A payload cut short, and one with an unknown variant.
MalformedPayloads ==
    {<<"{", "AboutMe", "from">>,
     <<"{", "Bye", "from">> \o PeerA \o <<"text", "}">>}

\* What receiver.try_next().await? can produce: a received gossip message,
\* another transport event, the end of the stream, or a transport error.
TryNextResults ==
    [kind : {"Received"}, content : WellFormedPayloads \cup MalformedPayloads]
    \cup [kind : {"NeighborUp", "End", "Error"}, content : {<<>>}]

\* Mutant of Insert: an existing entry is kept (entry().or_insert()).
InsertIfAbsent(m, k, v) == [p \in DOMAIN m \cup {k} |-> IF p \in DOMAIN m THEN m[p] ELSE v]

\* names.insert(from, name)
Insert(m, k, v) == [p \in DOMAIN m \cup {k} |-> IF p = k THEN v ELSE m[p]]

\* Mutant of Resolve: the directory is not consulted.
ResolveShortOnly(m, from) == FmtShort(from)

\* names.get(&from).map_or_else(|| from.fmt_short(), String::to_string)
Resolve(m, from) == IF from \in DOMAIN m THEN m[from] ELSE FmtShort(from)

\* println!("> {} is now known as {}", from.fmt_short(), name)
RenameLine(from, name) == <<"> ">> \o FmtShort(from) \o <<" is now known as ">> \o name

\* println!("{}: {} - OpenHAB state: {}", name, text, openhab_state)
ChatLine(name, txt, st) == name \o <<": ">> \o WithState(txt, st)

\* Mutant of AfterMalformed: the payload is skipped and the loop goes on.
AfterMalformedSkips == [pc |-> "listening", result |-> "none"]

\* The state of the loop after a payload that does not decode: the `?` of
\* line 181 returns the error.
AfterMalformed == [pc |-> "done", result |-> "err"]

\* Mutant of AfterOtherEvent: an event that is not a message ends the loop.
AfterOtherEventStops == [pc |-> "done", result |-> "ok"]

\* The state of the loop after an event the `if let` of line 180 does not
\* match: the body is skipped and the while loop takes the next event.
AfterOtherEvent == [pc |-> "listening", result |-> "none"]

\* subscribe_loop, lines 179-186: take the next event and dispatch it.
NextEvent(limit) ==
    /\ ~exited /\ rxPc = "listening" /\ Len(consumed) < limit
    /\ \E r \in TryNextResults :
          /\ consumed' = Append(consumed, r)
          /\ CASE r.kind = "Error" ->
                    /\ rxPc' = "done" /\ rxResult' = "err"
                    /\ UNCHANGED <<rxCur, names, out>>
               [] r.kind = "End" ->
                    /\ rxPc' = "done" /\ rxResult' = "ok"
                    /\ UNCHANGED <<rxCur, names, out>>
               [] r.kind = "NeighborUp" ->
                    /\ rxPc' = AfterOtherEvent.pc
                    /\ rxResult' = IF AfterOtherEvent.pc = "done"
                                   THEN AfterOtherEvent.result ELSE rxResult
                    /\ UNCHANGED <<rxCur, names, out>>
               [] r.kind = "Received" ->
                    LET m == FromBytes(r.content)
                    IN  CASE m.tag = "DecodeError" ->
                                /\ rxPc' = AfterMalformed.pc
                                /\ rxResult' = IF AfterMalformed.pc = "done"
                                               THEN AfterMalformed.result ELSE rxResult
                                /\ UNCHANGED <<rxCur, names, out>>
                          [] m.tag = "AboutMe" ->
                                /\ names' = Insert(names, m.from, m.body)
                                /\ out' = Append(out, RenameLine(m.from, m.body))
                                /\ UNCHANGED <<rxPc, rxResult, rxCur>>
                          [] m.tag = "Message" ->
                                /\ rxPc' = "fetch"
                                /\ rxCur' = m
                                /\ UNCHANGED <<rxResult, names, out>>
    /\ UNCHANGED <<codec, args, exited, mainVars, netVars, chanVars, pumpVars, received>>

\* subscribe_loop, lines 188-192: fetch the state, resolve the name, print.
PrintChat ==
    /\ ~exited /\ rxPc = "fetch"
    /\ \E r \in FetchOutcomes :
          IF FetchFatal(r)
          THEN /\ rxPc' = "done" /\ rxResult' = "err"
               /\ UNCHANGED out
          ELSE /\ out' = Append(out, ChatLine(Resolve(names, rxCur.from), rxCur.body,
                                              StateOrPlaceholder(r)))
               /\ rxPc' = "listening"
               /\ UNCHANGED rxResult
    /\ rxCur' = NoMessage
    /\ UNCHANGED <<codec, args, exited, mainVars, netVars, chanVars, pumpVars, received,
                   names, consumed>>

(* ---------------------------- specifications --------------------------- *)

Startup ==
    \/ ParseCommand \/ Bind \/ PrintTicket \/ CollectNodeIds \/ RegisterNode
    \/ Subscribe \/ AnnounceName \/ SpawnSubscribeLoop \/ SpawnInputLoop

\* The whole program.
Next ==
    \/ Startup
    \/ ReadLine(StartLines) \/ BlockingSend
    \/ RecvLine \/ FetchState \/ BroadcastLine \/ RouterShutdown
    \/ NextEvent(StartEvents) \/ PrintChat
    \/ ProcessExit

Spec == InitSession /\ [][Next]_vars

\* Session startup alone, for every command line: main up to the loop of
\* line 144, and the end of the process when main returned early.
NextStartup == Startup \/ ProcessExit

SpecStartup == Init /\ [][NextStartup]_vars

\* The input side: the pump and the Broadcast Loop of a session opened or
\* joined as in the whole-program specification, while the transport
\* delivers nothing.
NextSend ==
    \/ Startup
    \/ ReadLine(MaxLines) \/ BlockingSend
    \/ RecvLine \/ FetchState \/ BroadcastLine \/ RouterShutdown
    \/ ProcessExit

SpecSend == InitSession /\ [][NextSend]_vars

\* The input side with the scheduling of the runtime: a step of main that
\* can be taken is eventually taken (each await of the Broadcast Loop
\* completes).
SpecSendFair ==
    /\ SpecSend
    /\ WF_vars(RecvLine) /\ WF_vars(FetchState)
    /\ WF_vars(BroadcastLine) /\ WF_vars(RouterShutdown)

\* The receive side: the Receive Loop of a session opened or joined as in
\* the whole-program specification, while the user types nothing.
NextRecv ==
    \/ Startup
    \/ NextEvent(MaxEvents) \/ PrintChat
    \/ ProcessExit

SpecRecv == InitSession /\ [][NextRecv]_vars

(* ------------------------------ the codecs ----------------------------- *)

\* Characters of message texts, the closing brace and a variant name among
\* them.
CodecChars == {"a", "}", "Message"}

\* Every Message: either variant, any sender, any text, the empty one
\* included.
CodecMessages ==
    [tag : {"AboutMe", "Message"}, from : NodeIds, body : SeqsUpTo(CodecChars, MaxLineLen)]

\* Every Ticket: any topic, any sequence of addresses, our own included.
CodecTickets == [topic : Topics, nodes : SeqsUpTo(NodeAddrs \cup {SelfAddr}, MaxNodes)]

CodecInputs ==
    {[pc |-> "input", kind |-> "message", value |-> m] : m \in CodecMessages}
    \cup {[pc |-> "input", kind |-> "ticket", value |-> t] : t \in CodecTickets}

\* A value is about to be serialized; main has not started.
InitCodec ==
    /\ Start({[name |-> NoName, command |-> "Open", ticket |-> <<>>]})
    /\ codec \in CodecInputs

progVars == <<args, exited, mainVars, netVars, chanVars, pumpVars, received, rxVars>>

\* Message::to_vec (lines 172-174) or serde_json::to_string(&ticket)
\* (line 114).
CodecEncode ==
    /\ codec.pc = "input"
    /\ codec' = [pc |-> "encoded", kind |-> codec.kind, value |-> codec.value,
                 text |-> IF codec.kind = "message" THEN ToVec(codec.value)
                          ELSE TicketToString(codec.value)]
    /\ UNCHANGED progVars

\* Message::from_bytes (lines 168-170) or Ticket::from_str (lines 55-60).
CodecDecode ==
    /\ codec.pc = "encoded"
    /\ codec' = [pc |-> "decoded", kind |-> codec.kind, value |-> codec.value,
                 text |-> codec.text,
                 back |-> IF codec.kind = "message" THEN FromBytes(codec.text)
                          ELSE TicketFromStr(codec.text)]
    /\ UNCHANGED progVars

NextCodec == CodecEncode \/ CodecDecode

SpecCodec == InitCodec /\ [][NextCodec]_vars

(* ------------------------------- claims -------------------------------- *)

\* C1: the handoff never holds more than one unconsumed line, and a pump
\* that holds a second line while the first is still in the handoff does
\* not get past blocking_send as long as the receiver exists: it keeps its
\* line and the handoff changes only by the Broadcast Loop taking the first.
C1_SingleSlotBackpressure ==
    [][/\ Len(chan') <= 1
       /\ (pumpPc = "send" /\ Len(chan) = 1 /\ rxAlive)
            => /\ pumpPc' = "send"
               /\ pumpText' = pumpText
               /\ handedOff' = handedOff
               /\ chan' \in {chan, <<>>}]_vars

\* The pump holds a second line while the first waits in the handoff.
C1_Witness ==
    /\ pumpPc = "send" /\ rxAlive
    /\ Len(chan) = 1 /\ Len(handedOff) = 1

\* C2: the lines handed off are exactly the lines the Broadcast Loop has
\* received, in the same order, followed by what still waits in the
\* handoff: nothing is dropped, overwritten, duplicated or reordered.
C2_ExactlyOnceInOrder == handedOff = received \o chan

\* Two different lines were handed off and received in their order.
C2_Witness ==
    /\ Len(received) = 2
    /\ received[1] # received[2]
    /\ handedOff = received

IsAboutMe(i) == FromBytes(sent[i].payload).tag = "AboutMe"
IsChat(i) == FromBytes(sent[i].payload).tag = "Message"

\* C3: at most one AboutMe is submitted; it is the first submission, is made
\* only with a nickname configured and the join confirmed, and carries that
\* nickname; once main is past the announce with a nickname configured, and
\* whenever a Chat has been submitted, the AboutMe is there; without a
\* nickname or without a successful join there is none.
C3_AnnounceOnceAfterJoin ==
    /\ \A i \in DOMAIN sent :
          IsAboutMe(i) =>
             /\ i = 1
             /\ joinState = "joined"
             /\ args.name # NoName
             /\ sent[i].payload = ToVec(AboutMe(SelfId, args.name))
    /\ (args.name # NoName /\ (rxPc # "unspawned" \/ \E i \in DOMAIN sent : IsChat(i)))
          => (sent # <<>> /\ IsAboutMe(1) /\ sent[1].ok)
    /\ (args.name = NoName \/ joinState # "joined")
          => ~ \E i \in DOMAIN sent : IsAboutMe(i)

\* The AboutMe was broadcast and a Chat after it.
C3_Witness ==
    /\ Len(sent) = 2
    /\ IsAboutMe(1) /\ IsChat(2)

\* C4: whenever the startup AboutMe has been submitted, the Receive Loop has
\* been started.
C4_ReceiveLoopRunsAtAnnounce ==
    (\E i \in DOMAIN sent : IsAboutMe(i)) => rxPc # "unspawned"

\* The peers a Join is given: those of the decoded ticket.
TicketNodes ==
    IF args.command = "Join" /\ TicketFromStr(args.ticket).ok
    THEN TicketFromStr(args.ticket).nodes
    ELSE <<>>

\* The registration loop was left by a failed registration.
RegistrationFailed ==
    /\ mainPc = "returned"
    /\ node_ids # <<>> /\ nodes # <<>>
    /\ joinState = "none" /\ sent = <<>>

\* C5: when the subscription is requested, the address book holds the
\* address of every peer of the ticket, in the ticket's order, and the
\* request names their identities; after a failed registration no
\* subscription is requested.
C5_RegisterBeforeSubscribe ==
    /\ subscription # NoSubscription
          => /\ addrBook = TicketNodes
             /\ subscription.peers = [i \in DOMAIN TicketNodes |-> TicketNodes[i].node_id]
    /\ RegistrationFailed => subscription = NoSubscription

\* A ticket listing two peers was joined: both are registered and the
\* subscription is requested.
C5_Witness ==
    /\ args.command = "Join"
    /\ Len(TicketNodes) = 2
    /\ Len(addrBook) = 2
    /\ subscription # NoSubscription

IsReceived(r) == r.kind = "Received"
IsMalformed(r) == IsReceived(r) /\ FromBytes(r.content).tag = "DecodeError"
IsAboutMeFrom(r, p) ==
    /\ IsReceived(r)
    /\ FromBytes(r.content).tag = "AboutMe"
    /\ FromBytes(r.content).from = p
IsChatEvent(r) == IsReceived(r) /\ FromBytes(r.content).tag = "Message"

\* The positions in the history of the AboutMe events of peer p before n.
AboutMesBefore(p, n) == {i \in 1..(n - 1) : IsAboutMeFrom(consumed[i], p)}

Maximum(S) == CHOOSE x \in S : \A y \in S : y <= x

\* The name the most recent AboutMe of p before position n carries.
LastNameBefore(p, n) == FromBytes(consumed[Maximum(AboutMesBefore(p, n))].content).body

\* C6: the Directory has an entry for exactly the peers an AboutMe was
\* received from, and each entry is the name of the most recent AboutMe of
\* that peer; so an entry is never removed and a Chat changes nothing.
C6_LastWriteWins ==
    /\ DOMAIN names = {p \in NodeIds : AboutMesBefore(p, Len(consumed) + 1) # {}}
    /\ \A p \in DOMAIN names : names[p] = LastNameBefore(p, Len(consumed) + 1)

\* A peer announced two names, the other peer one, and a Chat followed.
C6_Witness ==
    /\ Len(consumed) = 3
    /\ IsAboutMeFrom(consumed[1], PeerA)
    /\ IsAboutMeFrom(consumed[2], PeerA)
    /\ consumed[1] # consumed[2]
    /\ IsChatEvent(consumed[3])
    /\ rxPc = "listening"

IsDispatched(i) == IsReceived(consumed[i]) /\ ~IsMalformed(consumed[i])

\* The positions in the history of the messages that were dispatched, in
\* order: each of them prints one line.
DispatchedAt == SelectSeq([i \in 1..Len(consumed) |-> i], IsDispatched)

\* The name a Chat at position n of the history is printed with.
ExpectedName(n) ==
    LET from == FromBytes(consumed[n].content).from
    IN  IF AboutMesBefore(from, n) # {} THEN LastNameBefore(from, n) ELSE FmtShort(from)

\* C7: the line printed for a Chat is "<name>: <text> - OpenHAB state: <s>"
\* where name is the nickname of the sender's most recent earlier AboutMe,
\* or else the non-empty short rendering of the sender; and a Chat from an
\* unknown sender leaves the loop running.
C7_ResolveName ==
    /\ Len(out) <= Len(DispatchedAt)
    /\ \A k \in 1..Len(out) :
          LET n == DispatchedAt[k]
              m == FromBytes(consumed[n].content)
          IN  m.tag = "Message" =>
                 /\ ExpectedName(n) # <<>>
                 /\ \E r \in FetchOutcomes :
                       out[k] = ExpectedName(n) \o <<": ">> \o m.body
                                \o <<" - OpenHAB state: ">> \o StateOrPlaceholder(r)
    /\ (consumed # <<>> /\ IsChatEvent(consumed[Len(consumed)]))
          => (rxPc \in {"fetch", "listening"} /\ rxResult = "none")

\* A Chat of an unknown peer was printed with the short identity, the peer
\* announced a name, and its next Chat was printed with the name.
C7_Witness ==
    /\ Len(out) = 3
    /\ IsChatEvent(consumed[1]) /\ FromBytes(consumed[1].content).from = PeerA
    /\ IsAboutMeFrom(consumed[2], PeerA)
    /\ IsChatEvent(consumed[3]) /\ FromBytes(consumed[3].content).from = PeerA
    /\ rxPc = "listening"

ChatsSent == SelectSeq(sent, LAMBDA e : FromBytes(e.payload).tag = "Message")

\* C8 as stated: the k-th Chat submitted is Chat{from: self, text: the k-th
\* line received from the pump}.
C8_TextIsLine ==
    /\ Len(ChatsSent) <= Len(received)
    /\ \A k \in 1..Len(ChatsSent) :
          FromBytes(ChatsSent[k].payload) = ChatMsg(SelfId, received[k])

\* C8 amended: the k-th Chat submitted has the local identity as sender and
\* as text the k-th line received from the pump followed by
\* " - OpenHAB state: " and the fetched item state or, when the fetch
\* failed, "Error fetching state"; a receiver that knows the sender as Bob
\* prints "Bob: <line> - OpenHAB state: <s> - OpenHAB state: <its own s>".
C8_TextIsLineWithState ==
    /\ Len(ChatsSent) <= Len(received)
    /\ \A k \in 1..Len(ChatsSent) :
          LET m == FromBytes(ChatsSent[k].payload)
          IN  /\ m.tag = "Message"
              /\ m.from = SelfId
              /\ \E r \in FetchOutcomes :
                    /\ m.body = received[k] \o <<" - OpenHAB state: ">>
                                 \o (IF r.ok THEN r.body ELSE <<"Error fetching state">>)
                    /\ \A q \in FetchOutcomes :
                          ChatLine(Resolve(Insert(<<>>, m.from, <<"Bob">>), m.from),
                                   m.body, StateOrPlaceholder(q))
                          = <<"Bob", ": ">> \o received[k]
                             \o <<" - OpenHAB state: ">> \o StateOrPlaceholder(r)
                             \o <<" - OpenHAB state: ">> \o StateOrPlaceholder(q)

\* Chats were submitted for the empty line and for a non-empty one.
C8_Witness ==
    /\ Len(ChatsSent) = 2
    /\ received[1] = <<>> /\ received[2] # <<>>
    /\ ChatsSent[2].ok

MalformedSeen == \E i \in DOMAIN consumed : IsMalformed(consumed[i])

\* C9: once the Receive Loop has taken a malformed payload while main runs,
\* nothing more is submitted to the transport, and main returns an error, so
\* the process ends with a non-zero status.
C9_DecodeFailureEndsSession ==
    [][(MalformedSeen /\ mainPc # "returned")
          => /\ sent' = sent
             /\ mainPc' = "returned" => mainResult' = "err"]_vars

IsTerminal(r) == r.kind \in {"End", "Error"} \/ IsMalformed(r)

\* C10: a malformed payload, the end of the stream and a transport error
\* each end the Receive Loop, and once it has ended it takes no event,
\* leaves the Directory as it is and prints nothing.
C10_ReceiveLoopTerminal ==
    [][/\ (consumed' # <<>> /\ IsTerminal(consumed'[Len(consumed')])) => rxPc' = "done"
       /\ rxPc = "done"
            => (rxPc' = "done" /\ consumed' = consumed /\ names' = names /\ out' = out)]_vars

\* The loop ended on a malformed payload after it had recorded a name, with
\* room for further events.
C10_Witness ==
    /\ rxPc = "done" /\ rxResult = "err"
    /\ Len(consumed) = 2 /\ IsMalformed(consumed[2])
    /\ names # <<>> /\ Len(out) = 1
    /\ ~exited

\* The echo lines main has printed, in order.
Echoes == SelectSeq(mainOut, LAMBDA l : l[1] = "> sent: ")

OkChatsSent == SelectSeq(ChatsSent, LAMBDA e : e.ok)

\* C11: a submission the transport refused is the last one ever made, so it
\* is not submitted again and no later line is broadcast; main has returned
\* an error; and the echo lines are exactly those of the Chats the
\* transport accepted, so the refused message has none.
C11_BroadcastFailureFatal ==
    /\ \A i \in DOMAIN sent :
          ~sent[i].ok =>
             /\ i = Len(sent)
             /\ mainPc = "returned"
             /\ mainResult = "err"
    /\ Len(Echoes) = Len(OkChatsSent)
    /\ \A k \in 1..Len(Echoes) :
          Echoes[k] = <<"> sent: ">> \o FromBytes(OkChatsSent[k].payload).body

\* A Chat was refused after another was accepted and echoed, and the
\* process has ended.
C11_Witness ==
    /\ exited
    /\ Len(ChatsSent) = 2
    /\ ChatsSent[1].ok /\ ~ChatsSent[2].ok
    /\ Len(Echoes) = 1

\* C12: once the input source is exhausted, the pump hands off no further
\* line.
C12_PumpStopsAtEndOfInput ==
    [][stdinEof => handedOff' = handedOff]_vars

\* The pump has stopped while main runs: its read failed.
InputFailedRunning == pumpPc = "done" /\ mainPc # "returned"

\* C13 as stated: after the input source failed, main returns success with
\* the router shut down.
C13_InputFailureEndsInSuccess ==
    [][(InputFailedRunning /\ mainPc' = "returned")
          => (mainResult' = "ok" /\ routerDown')]_vars

\* C13 amended: when the input source fails the pump stops and the handoff
\* is closed; the Broadcast Loop then leaves its receive loop only with the
\* handoff empty, every handed-off line received and every broadcast
\* accepted, and invokes the router shutdown; main returns an error only
\* when a broadcast of a remaining line or the shutdown itself failed; and
\* main eventually returns.
C13_InputFailureDrains ==
    /\ [](pumpPc = "done" => ~txAlive)
    /\ [][InputFailedRunning =>
            /\ pumpPc' = "done"
            /\ (mainPc # "shutdown" /\ mainPc' = "shutdown")
                  => /\ chan' = <<>>
                     /\ received' = handedOff'
                     /\ \A i \in DOMAIN sent' : sent'[i].ok
            /\ (mainPc' = "returned")
                  => \/ mainResult' = "ok" /\ routerDown'
                     \/ mainResult' = "err" /\ routerDown'
                     \/ mainResult' = "err" /\ sent' # <<>> /\ ~sent'[Len(sent')].ok]_vars
    /\ (InputFailedRunning ~> mainPc = "returned")

\* The input failed after one line was handed off; the line was broadcast,
\* the router shut down and main returned success.
C13_Witness ==
    /\ pumpPc = "done" /\ ~stdinEof
    /\ Len(handedOff) = 1 /\ received = handedOff
    /\ routerDown /\ mainPc = "returned" /\ mainResult = "ok"

\* Join was given a ticket text the decoder refuses, and main has acted on it.
BadTicketHandled ==
    args.command = "Join" /\ args.ticket \in BadTicketTexts /\ mainPc # "parse"

TicketLines == SelectSeq(mainOut, LAMBDA l : l[1] = "> ticket to join us: ")
TicketShown == TicketLines # <<>>

\* C14: a ticket text that does not decode ends Join with an error and
\* nothing else: no topic and no peer is taken from it, no endpoint is
\* bound, no address registered, no subscription requested, nothing
\* broadcast, no ticket or other line printed, no loop started.
C14_TicketFailureNoEffects ==
    BadTicketHandled =>
        /\ mainPc = "returned" /\ mainResult = "err"
        /\ topic = NoTopic /\ nodes = <<>> /\ node_ids = <<>>
        /\ ~bound /\ addrBook = <<>> /\ subscription = NoSubscription
        /\ joinState = "none" /\ sent = <<>> /\ ~routerDown
        /\ mainOut = <<>> /\ ~TicketShown
        /\ pumpPc = "unspawned" /\ rxPc = "unspawned"

\* Join with a truncated encoding (it starts like a ticket) has ended.
C14_Witness ==
    /\ BadTicketHandled /\ args.ticket[1] = "{"
    /\ exited /\ mainResult = "err"

\* C15 as stated: a ticket is presented only for a session whose join has
\* completed successfully.
C15_TicketAfterJoin == TicketShown => joinState = "joined"

\* C15 amended: the self ticket is presented once, after the endpoint is
\* bound and before the subscription is requested, whatever the outcome of
\* the join; the line carries the canonical encoding of the ticket
\* (session topic, [self address]).
C15_TicketBeforeJoin ==
    /\ Len(TicketLines) <= 1
    /\ TicketShown =>
          /\ bound
          /\ TicketLines[1] = <<"> ticket to join us: ">>
                \o TicketToString([topic |-> topic, nodes |-> <<SelfAddr>>])
    /\ (subscription # NoSubscription \/ joinState # "none") => TicketShown
    /\ mainPc \in {"parse", "bind", "ticket"} => ~TicketShown

\* A Join with one peer printed its ticket and the join then failed.
C15_Witness ==
    /\ TicketShown /\ joinState = "failed"
    /\ args.command = "Join" /\ Len(addrBook) = 1

Decoded(kind) == codec.pc = "decoded" /\ codec.kind = kind

\* C16: a Message that is serialized and deserialized comes back equal:
\* same variant, same sender, same text; decoding does not fail and does
\* not turn one variant into the other.
C16_MessageRoundTrip ==
    Decoded("message") =>
        /\ codec.back = codec.value
        /\ codec.back # DecodeError
        /\ codec.back.tag = codec.value.tag
        /\ codec.back.from = codec.value.from
        /\ codec.back.body = codec.value.body

\* An AboutMe with an empty name has been through the codec.
C16_Witness ==
    /\ Decoded("message")
    /\ codec.value.tag = "AboutMe" /\ codec.value.body = <<>>
    /\ codec.text = ToVec(codec.value)

\* C17: a Ticket that is encoded as on the ticket line and decoded as by
\* Join comes back equal: same topic, same addresses in the same order.
C17_TicketRoundTrip ==
    Decoded("ticket") =>
        /\ codec.back.ok
        /\ codec.back.topic = codec.value.topic
        /\ codec.back.nodes = codec.value.nodes

\* A ticket listing two different addresses has been through the codec.
C17_Witness ==
    /\ Decoded("ticket")
    /\ Len(codec.value.nodes) = 2
    /\ codec.value.nodes[1] # codec.value.nodes[2]
    /\ codec.text = TicketToString(codec.value)

\* The step takes an event that is not a received gossip message.
TakesOtherEvent ==
    /\ Len(consumed') = Len(consumed) + 1
    /\ consumed'[Len(consumed')].kind = "NeighborUp"

\* C18: an event that is not a received gossip message changes neither the
\* directory nor the output, and leaves the Receive Loop listening for the
\* next event.
C18_OtherEventsIgnored ==
    [][TakesOtherEvent =>
          /\ names' = names /\ out' = out
          /\ rxPc' = "listening" /\ rxResult' = "none" /\ rxCur' = NoMessage]_vars

\* A presence event arrived between an AboutMe and a Chat, and both were
\* handled.
C18_Witness ==
    /\ Len(consumed) = 3 /\ consumed[2].kind = "NeighborUp"
    /\ \E p \in Peers : IsAboutMeFrom(consumed[1], p)
    /\ IsChatEvent(consumed[3])
    /\ Len(out) = 2 /\ rxPc = "listening"

Placeholder == <<"Error fetching state">>

\* The text ends with the placeholder of a failed fetch.
EndsWithPlaceholder(t) == t # <<>> /\ t[Len(t)] = Placeholder[1]

\* C19: whatever the fetch returns, the Broadcast Loop goes from the fetch
\* to the broadcast of the same line and submits it, and the Receive Loop
\* goes from the fetch back to listening having printed the Chat line;
\* neither loop ends or fails at the fetch.
C19_FetchFailureNotFatal ==
    [][/\ (mainPc = "fetch" /\ mainPc' # "fetch")
            => /\ mainPc' = "broadcast" /\ mainResult' = "none"
               /\ text' = text /\ sent' = sent
       /\ (mainPc = "broadcast" /\ mainPc' # "broadcast")
            => /\ Len(sent') = Len(sent) + 1
               /\ FromBytes(sent'[Len(sent')].payload)
                     = [tag |-> "Message", from |-> SelfId,
                        body |-> text \o StateSep \o openhab_state]
       /\ (rxPc = "fetch" /\ rxPc' # "fetch")
            => /\ rxPc' = "listening" /\ rxResult' = "none"
               /\ Len(out') = Len(out) + 1
               /\ SubSeq(out'[Len(out')], Len(out'[Len(out')]) - 2, Len(out'[Len(out')]) - 1)
                     = rxCur.body \o StateSep]_vars

\* Both fetches failed: the line went out with the placeholder and the
\* Broadcast Loop waits for the next line; the Chat was printed with the
\* placeholder and the Receive Loop listens again.
C19_Witness ==
    /\ ChatsSent # <<>> /\ ChatsSent[1].ok
    /\ EndsWithPlaceholder(FromBytes(ChatsSent[1].payload).body)
    /\ mainPc = "recv"
    /\ out # <<>> /\ EndsWithPlaceholder(out[Len(out)])
    /\ rxPc = "listening"

\* C20: once the router's shutdown has been invoked, the pump has stopped
\* and closed the handoff, no line waits in it, every line handed off was
\* received and submitted, and no broadcast has failed.
C20_ShutdownAfterDrain ==
    routerDown =>
        /\ pumpPc = "done" /\ ~txAlive
        /\ chan = <<>> /\ received = handedOff
        /\ Len(ChatsSent) = Len(handedOff)
        /\ \A i \in DOMAIN sent : sent[i].ok

\* The shutdown was invoked after a line was handed off, broadcast and
\* echoed, and the process has ended.
C20_Witness ==
    /\ routerDown /\ exited
    /\ Len(handedOff) = 1 /\ Len(OkChatsSent) = 1 /\ Len(Echoes) = 1

====
